---- MODULE Spec2Model ----
(***************************************************************************)
(* Model of the CTV oracle emulator (ctv_emulators/src/lib.rs): the        *)
(* hash -> derivation path codec, the signing oracle (server), the oracle  *)
(* client with its connection slot, and the framed request/response        *)
(* exchange between them.                                                  *)
(*                                                                         *)
(* Abstractions.  secp256k1 is replaced by the additive group of integers  *)
(* modulo GroupOrder with generator GroupGen; HMAC-SHA512 by a small       *)
(* mixing function.  A signature is the pair (signing key, message), so    *)
(* "verifies against pk over m" is PublicKey(sig.key) = pk /\ sig.msg = m. *)
(* A u32 is kept as [msb, low] (bit 31 and the low 31 bits).               *)
(***************************************************************************)
EXTENDS Integers, Sequences, FiniteSets, TLC

VARIABLES
    root,      \* HDOracleEmulator.root: the master extended private key
    ctvOf,     \* the external commitment-hash function, tx id -> 32 bytes
    edits,     \* number of hash bytes set so far (codec specification)
    derived,   \* tx id -> results of the codec, both derives, sign, get_signer_for
    conns,     \* the TCP connections accepted by the oracle, in accept order
    slot,      \* HDOracleEmulatorConnection.connection: None or a connection index
    lock,      \* holder of the connection Mutex: None or a caller
    callers,   \* per caller of OracleClient.sign: position, argument, result
    ncalls,    \* sign calls started so far
    nsends,    \* frames sent by raw peers so far
    srvLog,    \* history: what the oracle did with a frame in the step just taken
    cliLog,    \* history: the response frame the client parsed in the step just taken
    signerLog, \* history: the get_signer_for call made in the step just taken
    fed        \* a FederatedEmulatorConnection and the results of the calls on it

vars == <<root, ctvOf, edits, derived, conns, slot, lock, callers, ncalls, nsends,
          srvLog, cliLog, signerLog, fed>>

\* Option<T>: None, or Some(v)
None == <<>>
Some(v) == <<v>>

\* F(e) with e evaluated once and passed on as a value (let v = e; F(v))
Bind(e, F(_)) == CHOOSE r \in {F(v) : v \in {e}} : TRUE

Ok(v) == [ok |-> TRUE, val |-> v]
Err(e) == [ok |-> FALSE, val |-> e]

----------------------------------------------------------------------------
(* Bounds *)

MaxEdits == 1
MaxConns == 2
MaxCalls == 2
MaxPeerSends == 2

----------------------------------------------------------------------------
(* u32 arithmetic, kept in 32 bits *)

MAX_MSG == 1000000

Pow2(n) == 2 ^ n

U32(m, l) == [msb |-> m, low |-> l]

\* u32::from_be_bytes([b1, b2, b3, b4])
FromBeBytes(x) ==
    U32(x[1] \div 128, (x[1] % 128) * Pow2(24) + x[2] * Pow2(16) + x[3] * Pow2(8) + x[4])

\* w << i on 32 bits, 0 <= i <= 31: bits shifted past bit 31 are lost
\* (2^31 itself is never computed: the low part holds 31 bits)
Shl(w, i) ==
    IF i = 0 THEN w
    ELSE U32((w.low \div Pow2(31 - i)) % 2,
             IF i = 31 THEN 0 ELSE (w.low % Pow2(31 - i)) * Pow2(i))

\* w >> i on 32 bits (logical), 0 <= i <= 31
Shr(w, i) ==
    IF i = 0 THEN w
    ELSE U32(0, w.msb * Pow2(31 - i) + (IF i = 31 THEN 0 ELSE w.low \div Pow2(i)))

\* ChildNumber::from(u32): bit 31 selects the hardened form
ChildNumberFrom(w) == [hardened |-> w.msb = 1, index |-> w.low]

----------------------------------------------------------------------------
(* DerivationCodec *)

Bytes == 0 .. 255
HashLen == 32
WordIdx == 0 .. 7

\* transmute::<[u8; 32], [[u8; 4]; 8]>: word i (0-based) is bytes 4i+1 .. 4i+4
Transmute(a) == [i \in WordIdx |-> <<a[4 * i + 1], a[4 * i + 2], a[4 * i + 3], a[4 * i + 4]>>]

\* (u32::from_be_bytes(*x) << 1) >> 1
MaskTop(x) == Shr(Shl(FromBeBytes(x), 1), 1)

\* (u32::from_be_bytes(*x) >> 31) << i
MsbAt(x, i) == Shl(Shr(FromBeBytes(x), 31), i)

RECURSIVE SumMsb(_, _)
\* b.iter().enumerate().map(|(i, x)| ...).sum::<u32>(), from word i on
SumMsb(b, i) ==
    IF i > 7 THEN 0 ELSE MsbAt(b[i], i).low + SumMsb(b, i + 1)

hash_to_child_vec_nomask(h) ==
    Bind(Transmute(h), LAMBDA b :
        [i \in 1 .. 9 |->
            IF i <= 8 THEN ChildNumberFrom(FromBeBytes(b[i - 1]))
            ELSE ChildNumberFrom(U32(0, SumMsb(b, 0)))])

hash_to_child_vec_noshift(h) ==
    Bind(Transmute(h), LAMBDA b :
        [i \in 1 .. 9 |->
            IF i <= 8 THEN ChildNumberFrom(MaskTop(b[i - 1]))
            ELSE ChildNumberFrom(U32(0,
                    Cardinality({w \in WordIdx : MsbAt(b[w], 0).low = 1})))])

hash_to_child_vec_le(h) ==
    Bind([w \in WordIdx |-> <<h[4 * w + 4], h[4 * w + 3], h[4 * w + 2], h[4 * w + 1]>>],
         LAMBDA b :
        [i \in 1 .. 9 |->
            IF i <= 8 THEN ChildNumberFrom(MaskTop(b[i - 1]))
            ELSE ChildNumberFrom(U32(0, SumMsb(b, 0)))])

\* hash_to_child_vec: eight masked words, then the ninth index of their top bits
hash_to_child_vec(h) ==
    Bind(Transmute(h), LAMBDA b :
        [i \in 1 .. 9 |->
            IF i <= 8 THEN ChildNumberFrom(MaskTop(b[i - 1]))
            ELSE ChildNumberFrom(U32(0, SumMsb(b, 0)))])

----------------------------------------------------------------------------
(* Keys and hierarchical derivation (bitcoin::util::bip32, secp256k1) *)

GroupOrder == 251
GroupGen == 3

\* SecretKey -> PublicKey: scalar multiple of the generator
PublicKey(k) == (k * GroupGen) % GroupOrder

\* point addition
PointAdd(p, q) == (p + q) % GroupOrder

\* the HMAC of a derivation step: (chain code, key data, child number) -> (il, ir)
Hmac(chain, data, cn) ==
    LET x == chain * 31 + data * 17 + (cn.index % 9973) * 7
             + (IF cn.hardened THEN 101 ELSE 0) + 5
    IN  [il |-> x % GroupOrder, ir |-> (x \div 7) % GroupOrder]

\* ExtendedPubKey::from_private
Neuter(xprv) == [public_key |-> PublicKey(xprv.key), chain |-> xprv.chain]

\* ExtendedPrivKey::ckd_priv: a normal child hashes the parent public key, a
\* hardened child the parent private key; a zero tweak or child key is an error
ckd_priv(xprv, cn) ==
    Bind(Hmac(xprv.chain,
              IF cn.hardened THEN GroupOrder + xprv.key ELSE PublicKey(xprv.key), cn),
         LAMBDA i :
            IF i.il = 0 \/ (i.il + xprv.key) % GroupOrder = 0 THEN Err("Ecc")
            ELSE Ok([key |-> (i.il + xprv.key) % GroupOrder, chain |-> i.ir]))

\* ExtendedPubKey::ckd_pub: hardened children cannot be derived from a public key
ckd_pub(xpub, cn) ==
    IF cn.hardened THEN Err("CannotDeriveFromHardenedKey")
    ELSE Bind(Hmac(xpub.chain, xpub.public_key, cn), LAMBDA i :
            IF i.il = 0 \/ PointAdd(xpub.public_key, PublicKey(i.il)) = 0 THEN Err("Ecc")
            ELSE Ok([public_key |-> PointAdd(xpub.public_key, PublicKey(i.il)),
                     chain |-> i.ir]))

RECURSIVE derive_priv(_, _, _)
\* ExtendedPrivKey::derive_priv over path[n ..]
derive_priv(xprv, path, n) ==
    IF n > 9 THEN Ok(xprv)
    ELSE Bind(ckd_priv(xprv, path[n]), LAMBDA r :
            IF r.ok THEN derive_priv(r.val, path, n + 1) ELSE r)

RECURSIVE derive_pub(_, _, _)
\* ExtendedPubKey::derive_pub over path[n ..]
derive_pub(xpub, path, n) ==
    IF n > 9 THEN Ok(xpub)
    ELSE Bind(ckd_pub(xpub, path[n]), LAMBDA r :
            IF r.ok THEN derive_pub(r.val, path, n + 1) ELSE r)

\* sapio_base::CTVHash::get_ctv_hash(tx, 0)
get_ctv_hash(tx) == ctvOf[tx]

OracleDeriveRoot(h) == Ok(root)

\* HDOracleEmulator::derive
OracleDerive(h) == Bind(hash_to_child_vec(h), LAMBDA c : derive_priv(root, c, 1))

\* HDOracleEmulatorConnection::derive, the client holding the public half of root
ClientDerive(h) == Bind(hash_to_child_vec(h), LAMBDA c : derive_pub(Neuter(root), c, 1))

\* HDOracleEmulatorConnection::get_signer_for
get_signer_for(h) ==
    Bind(ClientDerive(h), LAMBDA r :
        IF r.ok THEN Ok([clause |-> "Key", key |-> r.val.public_key]) ELSE r)

----------------------------------------------------------------------------
(* Partially signed transactions and the oracle's sign *)

\* bip143 SigHashCache::signature_hash(0, script, value, SigHashType::All)
SigHash(tx, script, value) == [tx |-> tx, input |-> 0, script |-> script, value |-> value]

\* secp.sign(msg, key).serialize_compact() with the 0x01 (SIGHASH_ALL) byte pushed
Signature(key, msg) == [key |-> key, msg |-> msg, sighash_type |-> 1]

SigsReplaceAll(sigs, pk, sig) == {[pk |-> pk, sig |-> sig]}

\* BTreeMap::insert on partial_sigs, a set of [pk, sig] with one entry per pk
SigsInsert(sigs, pk, sig) == {e \in sigs : e.pk # pk} \cup {[pk |-> pk, sig |-> sig]}

OracleSignNoUtxoCheck(b) ==
    Bind(OracleDerive(get_ctv_hash(b.tx)), LAMBDA key :
        IF key.ok /\ b.inputs[1].witness_script # None
        THEN Ok([b EXCEPT !.inputs[1].partial_sigs =
                    SigsInsert(@, PublicKey(key.val.key),
                               Signature(key.val.key,
                                         SigHash(b.tx, b.inputs[1].witness_script[1],
                                                 IF b.inputs[1].witness_utxo = None THEN 0
                                                 ELSE b.inputs[1].witness_utxo[1])))])
        ELSE Err("Unknown Failure to Sign"))

\* HDOracleEmulator::sign; inputs[1] is the code's inputs[0].  Message::from_slice
\* of the 32-byte sighash cannot fail, so that branch is left out.
OracleSign(b) ==
    Bind(OracleDerive(get_ctv_hash(b.tx)), LAMBDA key :
        IF key.ok /\ b.inputs[1].witness_script # None /\ b.inputs[1].witness_utxo # None
        THEN Ok([b EXCEPT !.inputs[1].partial_sigs =
                    SigsInsert(@, PublicKey(key.val.key),
                               Signature(key.val.key,
                                         SigHash(b.tx, b.inputs[1].witness_script[1],
                                                 b.inputs[1].witness_utxo[1])))])
        ELSE Err("Unknown Failure to Sign"))

----------------------------------------------------------------------------
(* Inputs *)

Txs == {"txA", "txB"}

ZeroHash == [i \in 1 .. HashLen |-> 0]
OnesHash == [i \in 1 .. HashLen |-> 255]
BaseHashes == {ZeroHash, OnesHash}

\* 4-byte words written into a hash by the codec specification
WordVals ==
    {<<0, 0, 0, 0>>, <<128, 0, 0, 0>>, <<255, 255, 255, 255>>, <<1, 2, 3, 4>>}

\* master extended private keys
Roots == {[key |-> 7, chain |-> 11], [key |-> 100, chain |-> 42]}

Input(ws, utxo, sigs) == [witness_script |-> ws, witness_utxo |-> utxo, partial_sigs |-> sigs]

Psbt(tx, extra, inputs) == [tx |-> tx, extra |-> extra, inputs |-> inputs]

\* a spend request with everything the oracle needs on its only input
ValidPsbt(tx) == Psbt(tx, 0, <<Input(Some("ws"), Some(50), {})>>)

\* the hash with word w (0-based) replaced by the 4 bytes x
SetWord(h, w, x) ==
    [i \in 1 .. HashLen |-> IF (i - 1) \div 4 = w THEN x[((i - 1) % 4) + 1] ELSE h[i]]

\* what the codec, the two derives, the oracle's sign and the client's
\* get_signer_for give for every transaction under the current ctvOf and root
Derived ==
    [t \in Txs |->
        [h |-> get_ctv_hash(t),
         path |-> hash_to_child_vec(get_ctv_hash(t)),
         signed |-> OracleSign(ValidPsbt(t)),
         signer |-> get_signer_for(get_ctv_hash(t))]]

----------------------------------------------------------------------------
(* The protocol state before any connection *)

Callers == {"c1", "c2"}

\* a caller: where it is in sign, its argument b, the result returned, and
\* history: whether the slot held a forcibly closed connection when the call
\* began, the slot when it returned, and the connects and requests it made
IdleCaller ==
    [pc |-> "idle", b |-> None, result |-> None, slotAfter |-> None, stale |-> FALSE,
     connects |-> 0, sent |-> 0]

\* no federation has been built
NoFed == [emulators |-> <<>>, threshold |-> 0, signer |-> None, signed |-> None]

ProtoInit ==
    /\ conns = <<>>
    /\ slot = None
    /\ lock = None
    /\ callers = [k \in Callers |-> IdleCaller]
    /\ ncalls = 0
    /\ nsends = 0
    /\ srvLog = None
    /\ cliLog = None
    /\ signerLog = None
    /\ fed = NoFed

protoVars == <<conns, slot, lock, callers, ncalls, nsends, srvLog, cliLog, signerLog, fed>>

----------------------------------------------------------------------------
(* Codec specification: the commitment hashes and the master key range over *)
(* bounded sets, and every step re-applies the codec and both derivations.  *)

CodecInit ==
    /\ root \in Roots
    /\ ctvOf \in [Txs -> BaseHashes]
    /\ edits = 0
    /\ derived = Derived
    /\ ProtoInit

\* the commitment hash of t changes in one word, and everything is recomputed
CodecSetWord(t, w, x) ==
    /\ edits < MaxEdits
    /\ ctvOf' = [ctvOf EXCEPT ![t] = SetWord(@, w, x)]
    /\ ctvOf' # ctvOf
    /\ edits' = edits + 1
    /\ UNCHANGED root
    /\ derived' = [derived EXCEPT ![t] = Derived'[t]]
    /\ UNCHANGED protoVars

CodecNext == \E t \in Txs, w \in WordIdx, x \in WordVals : CodecSetWord(t, w, x)

SpecCodec == CodecInit /\ [][CodecNext]_vars

----------------------------------------------------------------------------
(* Wire protocol: a frame is a 4-byte length and that many bytes of JSON *)

SignPSBT(b) == [type |-> "SignPSBT", psbt |-> b]
PSBTMsg(b) == [type |-> "PSBT", psbt |-> b]
ConfirmKey(s) == [type |-> "ConfirmKey", nonce |-> s]
KeyConfirmedFixedHash(sig, h) == [type |-> "KeyConfirmed", signature |-> sig, h |-> "e1"]
KeyConfirmed(sig, h) == [type |-> "KeyConfirmed", signature |-> sig, h |-> h]
Garbage == [type |-> "garbage"]

\* number of partial signatures on all inputs of b
RECURSIVE NSigs(_, _)
NSigs(b, i) ==
    IF i > Len(b.inputs) THEN 0
    ELSE Cardinality(b.inputs[i].partial_sigs) + NSigs(b, i + 1)

\* serde_json::to_vec(r).len(): the JSON text grows with the PSBT's unknown
\* fields (extra) and with every partial signature
JsonLen(m) ==
    CASE m.type \in {"SignPSBT", "PSBT"} ->
            100 + m.psbt.extra + 60 * Len(m.psbt.inputs) + 150 * NSigs(m.psbt, 1)
      [] m.type = "ConfirmKey" -> 120
      [] m.type = "KeyConfirmed" -> 200
      [] OTHER -> 7

\* write_u32(v.len() as u32) then write_all(v)
Frame(m) == [len |-> JsonLen(m), body |-> m]

\* serde_json::from_slice::<msgs::Request>
ParseRequest(f) ==
    IF f.body.type \in {"SignPSBT", "ConfirmKey"} THEN Ok(f.body) ELSE Err("json")

\* serde_json::from_slice::<msgs::PSBT>
ParseResponse(f) ==
    IF f.body.type = "PSBT" THEN Ok(f.body.psbt) ELSE Err("json")

\* PartiallySignedTransaction::merge: refused when the unsigned transactions
\* differ; otherwise every input takes the other's partial signatures (extend)
\* and the other's script / utxo where it has none
PsbtMerge(b, o) ==
    IF b.tx # o.tx \/ Len(b.inputs) # Len(o.inputs) THEN Err("Fault Signed PSBT")
    ELSE Ok([b EXCEPT !.inputs =
                [i \in 1 .. Len(b.inputs) |->
                    [witness_script |-> IF b.inputs[i].witness_script # None
                                        THEN b.inputs[i].witness_script
                                        ELSE o.inputs[i].witness_script,
                     witness_utxo |-> IF b.inputs[i].witness_utxo # None
                                      THEN b.inputs[i].witness_utxo
                                      ELSE o.inputs[i].witness_utxo,
                     partial_sigs |->
                        {e \in b.inputs[i].partial_sigs :
                            \A x \in o.inputs[i].partial_sigs : x.pk # e.pk}
                        \cup o.inputs[i].partial_sigs]]])

----------------------------------------------------------------------------
(* Connections *)

\* a connection as the oracle's accept loop and spawned task see it
NewConn(owner) ==
    [owner |-> owner,      \* "client" (the OracleClient) or "peer" (any other socket)
     c2s |-> <<>>,         \* frames written by the connecting side, not yet read
     s2c |-> <<>>,         \* frames written by the oracle, not yet read
     srv |-> "idle",       \* the oracle's task: "idle", "handling", "closed"
     req |-> None,         \* the request being handled
     link |-> "up"]        \* "down" once the connection was forcibly closed

ConnIds == 1 .. Len(conns)

\* neither side can be reached any more through c
Dead(c) == conns[c].link = "down" \/ conns[c].srv = "closed"

\* the oracle's task ends (an error propagated by ?): its socket is dropped
TaskEnd(cn) == [cn EXCEPT !.srv = "closed", !.req = None, !.c2s = <<>>]

----------------------------------------------------------------------------
(* SigningOracle: accept loop, per-connection task, handle *)

Entropy == {"e1", "e2"}
Nonces == {"n1", "n2"}

LogEntry(phase, c, f, outcome, resp) ==
    [phase |-> phase, conn |-> c, len |-> f.len, msg |-> f.body,
     outcome |-> outcome, resp |-> resp]

ServerRequestedPipelined(c) ==
    /\ conns[c].srv \in {"idle", "handling"}
    /\ \/ /\ conns[c].link = "down"
          /\ conns' = [conns EXCEPT ![c] = TaskEnd(@)]
          /\ srvLog' = None
       \/ /\ conns[c].link = "up"
          /\ conns[c].c2s # <<>>
          /\ LET f == Head(conns[c].c2s)
             IN  IF ParseRequest(f).ok
                 THEN /\ conns' = [conns EXCEPT ![c].c2s = Tail(@),
                                                ![c].srv = "handling",
                                                ![c].req = Some(f)]
                      /\ srvLog' = Some(LogEntry("read", c, f, "parsed", None))
                 ELSE /\ conns' = [conns EXCEPT ![c] = TaskEnd(@)]
                      /\ srvLog' = Some(LogEntry("read", c, f, "parse_err", None))
    /\ cliLog' = None
    /\ signerLog' = None
    /\ UNCHANGED <<fed, root, ctvOf, edits, derived, slot, lock, callers, ncalls, nsends>>

\* HDOracleEmulator::requested, called by the task of connection c once the
\* socket is readable: read the length, read that many bytes, parse them.
\* No branch looks at the length read.
ServerRequested(c) ==
    /\ conns[c].srv = "idle"
    /\ \/ /\ conns[c].link = "down"                       \* read_u32 fails
          /\ conns' = [conns EXCEPT ![c] = TaskEnd(@)]
          /\ srvLog' = None
       \/ /\ conns[c].link = "up"
          /\ conns[c].c2s # <<>>
          /\ LET f == Head(conns[c].c2s)
             IN  IF ParseRequest(f).ok
                 THEN /\ conns' = [conns EXCEPT ![c].c2s = Tail(@),
                                                ![c].srv = "handling",
                                                ![c].req = Some(f)]
                      /\ srvLog' = Some(LogEntry("read", c, f, "parsed", None))
                 ELSE /\ conns' = [conns EXCEPT ![c] = TaskEnd(@)]
                      /\ srvLog' = Some(LogEntry("read", c, f, "parse_err", None))
    /\ cliLog' = None
    /\ signerLog' = None
    /\ UNCHANGED <<fed, root, ctvOf, edits, derived, slot, lock, callers, ncalls, nsends>>

RespondTwice(c, f, m) ==
    IF conns[c].link = "up"
    THEN /\ conns' = [conns EXCEPT ![c].s2c = IF conns[c].owner = "client"
                                              THEN Append(Append(@, Frame(m)), Frame(m))
                                              ELSE @,
                                   ![c].srv = "idle", ![c].req = None]
         /\ srvLog' = Some(LogEntry("handle", c, f, "ok", Some(Frame(m))))
    ELSE /\ conns' = [conns EXCEPT ![c] = TaskEnd(@)]
         /\ srvLog' = Some(LogEntry("handle", c, f, "write_err", None))

\* HDOracleEmulator::respond on connection c: the frame is written, or the
\* write fails on a connection that is down and the task ends.  A peer reads
\* what it is sent at once; the OracleClient reads in ClientResponse.
Respond(c, f, m) ==
    IF conns[c].link = "up"
    THEN /\ conns' = [conns EXCEPT ![c].s2c = IF conns[c].owner = "client"
                                              THEN Append(@, Frame(m)) ELSE @,
                                   ![c].srv = "idle", ![c].req = None]
         /\ srvLog' = Some(LogEntry("handle", c, f, "ok", Some(Frame(m))))
    ELSE /\ conns' = [conns EXCEPT ![c] = TaskEnd(@)]
         /\ srvLog' = Some(LogEntry("handle", c, f, "write_err", None))

\* HDOracleEmulator::handle after requested returned Ok: a Sign request is
\* signed and answered, and a failed sign ends the task through ? without
\* anything written; a ConfirmKey request is answered with a signature by the
\* master key over sha256(h || nonce) for fresh random bytes h
ServerHandle(c) ==
    /\ conns[c].srv = "handling"
    /\ LET f == conns[c].req[1]
       IN  \/ /\ f.body.type = "SignPSBT"
              /\ LET r == OracleSign(f.body.psbt)
                 IN  IF r.ok THEN Respond(c, f, PSBTMsg(r.val))
                     ELSE /\ conns' = [conns EXCEPT ![c] = TaskEnd(@)]
                          /\ srvLog' = Some(LogEntry("handle", c, f, "sign_err", None))
           \/ /\ f.body.type = "ConfirmKey"
              /\ \E h \in Entropy :
                    Respond(c, f, KeyConfirmed([key |-> root.key,
                                                msg |-> <<h, f.body.nonce>>], h))
    /\ cliLog' = None
    /\ signerLog' = None
    /\ UNCHANGED <<fed, root, ctvOf, edits, derived, slot, lock, callers, ncalls, nsends>>

----------------------------------------------------------------------------
(* OracleClient: sign *)

\* the spend requests callers pass to sign
SignArgs ==
    {ValidPsbt("txA"),
     Psbt("txA", MAX_MSG, <<Input(Some("ws"), Some(50),
                                  {[pk |-> 5, sig |-> Signature(9, "other")],
                                   [pk |-> 9, sig |-> Signature(4, SigHash("txA", "old", 1))]})>>),
     Psbt("txB", 0, <<Input(Some("ws"), None, {}), Input(Some("ws2"), Some(70), {})>>),
     Psbt("txB", 0, <<Input(None, Some(50), {})>>)}

\* the call returns: the lock guard is dropped at the end of the async block
Return(k, res) ==
    /\ callers' = [callers EXCEPT ![k].pc = "done", ![k].result = Some(res),
                                  ![k].slotAfter = slot']
    /\ lock' = None

\* a caller enters sign(b)
ClientSign(k, b) ==
    /\ callers[k].pc = "idle"
    /\ k = "c1" \/ callers["c1"].pc # "idle"     \* callers are alike: c1 calls first
    /\ ncalls < MaxCalls
    /\ ncalls' = ncalls + 1
    /\ callers' = [callers EXCEPT ![k] =
            [pc |-> "lock", b |-> Some(b), result |-> None, slotAfter |-> None,
             stale |-> slot # None /\ conns[slot[1]].link = "down",
             connects |-> 0, sent |-> 0]]
    /\ signerLog' = None
    /\ UNCHANGED <<fed, root, ctvOf, edits, derived, conns, slot, lock, nsends>>
    /\ srvLog' = None /\ cliLog' = None

\* the caller has its result and is ready to call again
ClientDone(k) ==
    /\ callers[k].pc = "done"
    /\ callers' = [callers EXCEPT ![k] = IdleCaller]
    /\ signerLog' = None
    /\ UNCHANGED <<fed, root, ctvOf, edits, derived, conns, slot, lock, ncalls, nsends>>
    /\ srvLog' = None /\ cliLog' = None

ClientLockNoMutex(k) ==
    /\ callers[k].pc = "lock"
    /\ lock' = Some(k)
    /\ callers' = [callers EXCEPT ![k].pc = "loop"]
    /\ signerLog' = None
    /\ UNCHANGED <<fed, root, ctvOf, edits, derived, conns, slot, ncalls, nsends>>
    /\ srvLog' = None /\ cliLog' = None

\* self.connection.lock().await
ClientLock(k) ==
    /\ callers[k].pc = "lock"
    /\ lock = None
    /\ lock' = Some(k)
    /\ callers' = [callers EXCEPT ![k].pc = "loop"]
    /\ signerLog' = None
    /\ UNCHANGED <<fed, root, ctvOf, edits, derived, conns, slot, ncalls, nsends>>
    /\ srvLog' = None /\ cliLog' = None

\* the else branch of the loop: *mconn = Some(TcpStream::connect(..).await?)
ClientConnect(k) ==
    /\ callers[k].pc = "loop"
    /\ slot = None
    /\ \/ /\ Len(conns) < MaxConns                         \* the oracle accepts
          /\ conns' = Append(conns, NewConn("client"))
          /\ slot' = Some(Len(conns) + 1)
          /\ callers' = [callers EXCEPT ![k].connects = @ + 1]
          /\ UNCHANGED lock
       \/ /\ UNCHANGED <<conns, slot>>                     \* connect fails
          /\ Return(k, Err("connect"))
    /\ signerLog' = None
    /\ UNCHANGED <<fed, root, ctvOf, edits, derived, ncalls, nsends>>
    /\ srvLog' = None /\ cliLog' = None

\* the Some branch: request(conn, SignPSBT(b)) and conn.flush(); on a dead
\* connection the write fails, or is accepted by the socket and lost
ClientRequest(k) ==
    /\ callers[k].pc = "loop"
    /\ slot # None
    /\ LET c == slot[1]
       IN  \/ /\ ~Dead(c)
              /\ conns' = [conns EXCEPT ![c].c2s =
                                Append(@, Frame(SignPSBT(callers[k].b[1])))]
              /\ callers' = [callers EXCEPT ![k].pc = "recv", ![k].sent = @ + 1]
              /\ UNCHANGED <<slot, lock>>
           \/ /\ Dead(c)
              /\ callers' = [callers EXCEPT ![k].pc = "recv", ![k].sent = @ + 1]
              /\ UNCHANGED <<conns, slot, lock>>
           \/ /\ Dead(c)
              /\ UNCHANGED <<conns, slot>>
              /\ Return(k, Err("write"))
    /\ signerLog' = None
    /\ UNCHANGED <<fed, root, ctvOf, edits, derived, ncalls, nsends>>
    /\ srvLog' = None /\ cliLog' = None

ClientResponseRetry(k) ==
    /\ callers[k].pc = "recv"
    /\ LET c == slot[1]
       IN  \/ /\ conns[c].s2c # <<>>
              /\ LET f == Head(conns[c].s2c)
                     r == ParseResponse(f)
                 IN  /\ conns' = [conns EXCEPT ![c].s2c = Tail(@)]
                     /\ cliLog' =
                            Some([caller |-> k, conn |-> c, len |-> f.len, msg |-> f.body,
                                  outcome |-> IF r.ok THEN "parsed" ELSE "parse_err"])
                     /\ UNCHANGED slot
                     /\ IF r.ok THEN Return(k, PsbtMerge(callers[k].b[1], r.val))
                        ELSE Return(k, Err("json"))
           \/ /\ conns[c].s2c = <<>>
              /\ Dead(c)
              /\ slot' = None
              /\ callers' = [callers EXCEPT ![k].pc = "loop"]
              /\ UNCHANGED <<conns, lock>>
              /\ cliLog' = None
    /\ srvLog' = None
    /\ signerLog' = None
    /\ UNCHANGED <<fed, root, ctvOf, edits, derived, ncalls, nsends>>

\* response::<msgs::PSBT>(conn), then b.merge(inp?) outside the lock
ClientResponse(k) ==
    /\ callers[k].pc = "recv"
    /\ LET c == slot[1]
       IN  \/ /\ conns[c].s2c # <<>>
              /\ LET f == Head(conns[c].s2c)
                     r == ParseResponse(f)
                 IN  /\ conns' = [conns EXCEPT ![c].s2c = Tail(@)]
                     /\ cliLog' =
                            Some([caller |-> k, conn |-> c, len |-> f.len, msg |-> f.body,
                                  outcome |-> IF r.ok THEN "parsed" ELSE "parse_err"])
                     /\ UNCHANGED slot
                     /\ IF r.ok THEN Return(k, PsbtMerge(callers[k].b[1], r.val))
                        ELSE Return(k, Err("json"))
           \/ /\ conns[c].s2c = <<>>
              /\ Dead(c)                                   \* read_u32 fails
              /\ UNCHANGED <<conns, slot>>
              /\ cliLog' = None
              /\ Return(k, Err("read"))
    /\ srvLog' = None
    /\ signerLog' = None
    /\ UNCHANGED <<fed, root, ctvOf, edits, derived, ncalls, nsends>>

get_signer_for_connected(h) ==
    IF slot = None \/ Dead(slot[1]) THEN Err("connect") ELSE get_signer_for(h)

\* what get_signer_for(h) does on the client: derive, wrap the key in a clause
ClientGetSigner(h) == get_signer_for(h)

\* a caller asks the client for its clause over the commitment hash of t; the
\* function takes no lock and touches no socket
ClientGetSignerFor(t) ==
    /\ signerLog' = Some([h |-> get_ctv_hash(t), result |-> ClientGetSigner(get_ctv_hash(t))])
    /\ srvLog' = None /\ cliLog' = None
    /\ UNCHANGED <<fed, root, ctvOf, edits, derived, conns, slot, lock, callers, ncalls, nsends>>

----------------------------------------------------------------------------
(* Environment: forced closes, and sockets other than the OracleClient's *)

\* connection c is forcibly closed (reset): nothing in flight survives
ForceClose(c) ==
    /\ conns[c].link = "up"
    /\ conns' = [conns EXCEPT ![c].link = "down", ![c].c2s = <<>>, ![c].s2c = <<>>]
    /\ signerLog' = None
    /\ UNCHANGED <<fed, root, ctvOf, edits, derived, slot, lock, callers, ncalls, nsends>>
    /\ srvLog' = None /\ cliLog' = None

\* some other program connects to the oracle
PeerConnect ==
    /\ Len(conns) < MaxConns
    /\ conns' = Append(conns, NewConn("peer"))
    /\ signerLog' = None
    /\ UNCHANGED <<fed, root, ctvOf, edits, derived, slot, lock, callers, ncalls, nsends>>
    /\ srvLog' = None /\ cliLog' = None

\* what such a program may write: a ConfirmKey request, or bytes that are no JSON
PeerMsgs == {ConfirmKey(s) : s \in Nonces} \cup {Garbage}

PeerSend(c, m) ==
    /\ conns[c].owner = "peer"
    /\ ~Dead(c)
    /\ nsends < MaxPeerSends
    /\ nsends' = nsends + 1
    /\ conns' = [conns EXCEPT ![c].c2s = Append(@, Frame(m))]
    /\ signerLog' = None
    /\ UNCHANGED <<fed, root, ctvOf, edits, derived, slot, lock, callers, ncalls>>
    /\ srvLog' = None /\ cliLog' = None

----------------------------------------------------------------------------
(* The protocol specification *)

\* commitment hashes of the two transactions: top bits set in some words
HashA == SetWord(SetWord(ZeroHash, 0, <<128, 0, 0, 0>>), 3, <<255, 255, 255, 255>>)
HashB == SetWord(OnesHash, 5, <<1, 2, 3, 4>>)

\* the oracle's master key in the protocol specification
MasterKey == [key |-> 7, chain |-> 11]

Init ==
    /\ root = MasterKey
    /\ ctvOf = [t \in Txs |-> IF t = "txA" THEN HashA ELSE HashB]
    /\ edits = 0
    /\ derived = Derived
    /\ ProtoInit

\* a returned call is observed in one state; the caller then takes its result
\* away, before anything else happens (that step touches nothing shared)
Quiet == \A k \in Callers : callers[k].pc # "done"

Next ==
    \/ \E c \in ConnIds : Quiet /\ ServerRequested(c)
    \/ \E c \in ConnIds : Quiet /\ ServerHandle(c)
    \/ \E k \in Callers, b \in SignArgs : Quiet /\ ClientSign(k, b)
    \/ \E k \in Callers : Quiet /\ ClientLock(k)
    \/ \E k \in Callers : Quiet /\ ClientConnect(k)
    \/ \E k \in Callers : Quiet /\ ClientRequest(k)
    \/ \E k \in Callers : Quiet /\ ClientResponse(k)
    \/ \E k \in Callers : ClientDone(k)
    \/ \E c \in ConnIds : Quiet /\ ForceClose(c)
    \/ Quiet /\ PeerConnect
    \/ \E c \in ConnIds, m \in PeerMsgs : Quiet /\ PeerSend(c, m)

Spec == Init /\ [][Next]_vars

\* One caller of sign, the oracle, forced closes, and get_signer_for called
\* (from another thread) at any moment
SignerNext ==
    \/ \E c \in ConnIds : Quiet /\ ServerRequested(c)
    \/ \E c \in ConnIds : Quiet /\ ServerHandle(c)
    \/ \E b \in SignArgs : Quiet /\ ClientSign("c1", b)
    \/ Quiet /\ ClientLock("c1")
    \/ Quiet /\ ClientConnect("c1")
    \/ Quiet /\ ClientRequest("c1")
    \/ Quiet /\ ClientResponse("c1")
    \/ ClientDone("c1")
    \/ \E c \in ConnIds : Quiet /\ ForceClose(c)
    \/ \E t \in Txs : Quiet /\ ClientGetSignerFor(t)

SpecSigner == Init /\ [][SignerNext]_vars

----------------------------------------------------------------------------
(* Federation: FederatedEmulatorConnection over members that are oracle clients *)

MaxMembers == 3

\* master keys of the members' oracles; the last has no child key for HashA
MemberRoots == {[key |-> 7, chain |-> 11], [key |-> 100, chain |-> 42],
                [key |-> 1, chain |-> 37]}

\* a member: an oracle client holding the public half of root, whose oracle
\* (holding root) can be reached or not
Members ==
    {[root |-> r, up |-> TRUE] : r \in MemberRoots}
        \cup {[root |-> [key |-> 100, chain |-> 42], up |-> FALSE]}

MemberSeqs == UNION {[1 .. n -> Members] : n \in 0 .. MaxMembers}

\* threshold: u8
Thresholds == {2, 255}

\* e.get_signer_for(h) of member m
MemberGetSignerFor(m, h) ==
    Bind(derive_pub(Neuter(m.root), hash_to_child_vec(h), 1), LAMBDA r :
        IF r.ok THEN Ok([clause |-> "Key", key |-> r.val.public_key]) ELSE r)

\* emulator.sign(b) of member m: the exchange with its oracle and the merge of
\* the oracle's answer; an unreachable oracle fails the connect, an oracle that
\* cannot sign drops the connection and the read fails
MemberSign(m, b) ==
    IF ~m.up THEN Err("connect")
    ELSE Bind(derive_priv(m.root, hash_to_child_vec(get_ctv_hash(b.tx)), 1), LAMBDA key :
            IF key.ok /\ b.inputs[1].witness_script # None /\ b.inputs[1].witness_utxo # None
            THEN PsbtMerge(b, [b EXCEPT !.inputs[1].partial_sigs =
                    SigsInsert(@, PublicKey(key.val.key),
                               Signature(key.val.key,
                                         SigHash(b.tx, b.inputs[1].witness_script[1],
                                                 b.inputs[1].witness_utxo[1])))])
            ELSE Err("read"))

RECURSIVE FedCollectSkipFailed(_, _, _, _)
FedCollectSkipFailed(ems, h, i, v) ==
    IF i > Len(ems) THEN Ok(v)
    ELSE Bind(MemberGetSignerFor(ems[i], h), LAMBDA r :
            FedCollectSkipFailed(ems, h, i + 1, IF r.ok THEN Append(v, r.val) ELSE v))

RECURSIVE FedCollect(_, _, _, _)
\* .map(|e| e.get_signer_for(h)).collect::<Result<Vec<Clause>, _>>() from
\* member i on, v holding the clauses so far: the first Err ends the collection
FedCollect(ems, h, i, v) ==
    IF i > Len(ems) THEN Ok(v)
    ELSE Bind(MemberGetSignerFor(ems[i], h), LAMBDA r :
            IF r.ok THEN FedCollect(ems, h, i + 1, Append(v, r.val)) ELSE r)

\* FederatedEmulatorConnection::get_signer_for
FedGetSignerFor(f, h) ==
    Bind(FedCollect(f.emulators, h, 1, <<>>), LAMBDA v :
        IF v.ok THEN Ok([clause |-> "Threshold", k |-> f.threshold, subs |-> v.val])
        ELSE v)

\* one call of a member's sign, as the history of a federation sign keeps it
SignCall(i, b, r) == [member |-> i, arg |-> b, result |-> r]

RECURSIVE FedSignFromGated(_, _, _, _, _)
FedSignFromGated(ems, k, b, i, calls) ==
    IF i > Len(ems) \/ Len(calls) >= k THEN [result |-> Ok(b), calls |-> calls]
    ELSE Bind(MemberSign(ems[i], b), LAMBDA r :
            IF r.ok
            THEN FedSignFromGated(ems, k, r.val, i + 1, Append(calls, SignCall(i, b, r)))
            ELSE [result |-> r, calls |-> Append(calls, SignCall(i, b, r))])

RECURSIVE FedSignFromSkipFailed(_, _, _, _, _)
FedSignFromSkipFailed(ems, k, b, i, calls) ==
    IF i > Len(ems) THEN [result |-> Ok(b), calls |-> calls]
    ELSE Bind(MemberSign(ems[i], b), LAMBDA r :
            FedSignFromSkipFailed(ems, k, IF r.ok THEN r.val ELSE b, i + 1,
                                  Append(calls, SignCall(i, b, r))))

RECURSIVE FedSignFrom(_, _, _, _, _)
\* the loop of FederatedEmulatorConnection::sign from member i on:
\* b = emulator.sign(b)?; calls is the history of the members' sign calls made.
\* The threshold k is not read.
FedSignFrom(ems, k, b, i, calls) ==
    IF i > Len(ems) THEN [result |-> Ok(b), calls |-> calls]
    ELSE Bind(MemberSign(ems[i], b), LAMBDA r :
            IF r.ok
            THEN FedSignFrom(ems, k, r.val, i + 1, Append(calls, SignCall(i, b, r)))
            ELSE [result |-> r, calls |-> Append(calls, SignCall(i, b, r))])

\* FederatedEmulatorConnection::sign
FedSign(f, b) == FedSignFrom(f.emulators, f.threshold, b, 1, <<>>)

\* the requests callers pass to the federation's sign
FedSignArgs == SignArgs \cup {ValidPsbt("txB")}

\* FederatedEmulatorConnection::new(emulators, threshold)
FedNew(emulators, threshold) ==
    [emulators |-> emulators, threshold |-> threshold, signer |-> None, signed |-> None]

FedInit ==
    /\ root = MasterKey
    /\ ctvOf = [t \in Txs |-> IF t = "txA" THEN HashA ELSE HashB]
    /\ edits = 0
    /\ derived = Derived
    /\ conns = <<>>
    /\ slot = None
    /\ lock = None
    /\ callers = [c \in Callers |-> IdleCaller]
    /\ ncalls = 0
    /\ nsends = 0
    /\ srvLog = None
    /\ cliLog = None
    /\ signerLog = None
    /\ fed \in {FedNew(e, k) : e \in MemberSeqs, k \in Thresholds}

\* a caller asks the federation for its clause over the commitment hash of t
FedGetSignerForCall(t) ==
    /\ fed' = [fed EXCEPT !.signer =
                    Some([h |-> get_ctv_hash(t), result |-> FedGetSignerFor(fed, get_ctv_hash(t))])]
    /\ fed' # fed
    /\ UNCHANGED <<root, ctvOf, edits, derived, conns, slot, lock, callers, ncalls, nsends,
                   srvLog, cliLog, signerLog>>

\* a caller asks the federation to sign b
FedSignCall(b) ==
    /\ fed' = [fed EXCEPT !.signed =
                    Some([b |-> b, run |-> FedSign(fed, b)])]
    /\ fed' # fed
    /\ UNCHANGED <<root, ctvOf, edits, derived, conns, slot, lock, callers, ncalls, nsends,
                   srvLog, cliLog, signerLog>>

FedNext ==
    \/ \E t \in Txs : FedGetSignerForCall(t)
    \/ \E b \in FedSignArgs : FedSignCall(b)

SpecFed == FedInit /\ [][FedNext]_vars

----------------------------------------------------------------------------
(* Claims about the codec and the two derivations, under SpecCodec *)

\* the i-th (0-based) big-endian 4-byte word of h, as bit 31 and the low 31 bits
WordMsb(h, i) == h[4 * i + 1] \div 128
WordLow(h, i) ==
    (h[4 * i + 1] % 128) * 16777216 + h[4 * i + 2] * 65536 + h[4 * i + 3] * 256 + h[4 * i + 4]

\* bit i of the number n
BitOf(n, i) == (n \div (2 ^ i)) % 2

\* the only entry of a partial-signature set with one element
OnlySig(sigs) == CHOOSE e \in sigs : TRUE

\* C6: whenever the oracle signs a transaction with commitment hash h, the public
\* key it files the signature under is the key of the clause that the client
\* holding the public half of the same master key returns for h, and the
\* signature verifies under that key over the sighash of input 0.
C6_KeyAgreement ==
    \A t \in Txs :
        derived[t].signed.ok =>
            /\ derived[t].signer.ok
            /\ derived[t].signer.val.clause = "Key"
            /\ LET sigs == derived[t].signed.val.inputs[1].partial_sigs
               IN  /\ Cardinality(sigs) = 1
                   /\ OnlySig(sigs).pk = derived[t].signer.val.key
                   /\ PublicKey(OnlySig(sigs).sig.key) = derived[t].signer.val.key
                   /\ OnlySig(sigs).sig.msg = SigHash(t, "ws", 50)

\* C6 witness: a hash with top bits set in some word has been signed for, and the
\* agreed key is a proper child key, not the master public key
C6_Witness ==
    \E t \in Txs :
        /\ \E i \in WordIdx : WordMsb(derived[t].h, i) = 1
        /\ \E i \in WordIdx : WordMsb(derived[t].h, i) = 0
        /\ derived[t].signed.ok
        /\ derived[t].signer.ok
        /\ OnlySig(derived[t].signed.val.inputs[1].partial_sigs).pk = derived[t].signer.val.key
        /\ derived[t].signer.val.key # PublicKey(root.key)

\* the hash read back from a path: word w is bit w of index 9 followed by the
\* 31 bits of index w + 1
Decode(c) ==
    [j \in 1 .. HashLen |->
        LET w == (j - 1) \div 4
            v == c[w + 1].index
        IN  CASE (j - 1) % 4 = 0 -> BitOf(c[9].index, w) * 128 + v \div 16777216
              [] (j - 1) % 4 = 1 -> (v \div 65536) % 256
              [] (j - 1) % 4 = 2 -> (v \div 256) % 256
              [] OTHER -> v % 256]

\* C7: two different hashes never get the same path; indeed every hash can be
\* read back from its path, so the codec loses no bit of the hash.
C7_Injective ==
    /\ \A t1, t2 \in Txs :
        derived[t1].h # derived[t2].h => derived[t1].path # derived[t2].path
    /\ \A t \in Txs : Decode(derived[t].path) = derived[t].h

\* C7 witness: two hashes that differ only in the top bit of one word, whose
\* paths agree on the first eight indices and differ in the ninth
C7_Witness ==
    /\ derived["txA"].h # derived["txB"].h
    /\ \A i \in WordIdx : WordLow(derived["txA"].h, i) = WordLow(derived["txB"].h, i)
    /\ \A i \in 1 .. 8 : derived["txA"].path[i] = derived["txB"].path[i]
    /\ derived["txA"].path[9] # derived["txB"].path[9]

\* C8: the path has exactly 9 indices; index i (0..7) is big-endian word i with
\* its top bit cleared; index 8 has the top bit of word i at bit i and nothing
\* above bit 7; every index is below 2^31 (not hardened); 32 zero bytes give nine
\* zeros and 32 bytes 0xFF give eight 0x7FFFFFFF and then 0xFF.
C8_ReferencePacking ==
    \A t \in Txs :
        LET h == derived[t].h
            c == derived[t].path
        IN  /\ DOMAIN c = 1 .. 9
            /\ \A i \in WordIdx : c[i + 1] = [hardened |-> FALSE, index |-> WordLow(h, i)]
            /\ c[9].hardened = FALSE
            /\ c[9].index < 256
            /\ \A i \in WordIdx : BitOf(c[9].index, i) = WordMsb(h, i)
            /\ \A i \in 1 .. 9 : c[i].index >= 0 /\ c[i].index <= 2147483647
            /\ (h = ZeroHash => \A i \in 1 .. 9 : c[i].index = 0)
            /\ (h = OnesHash =>
                    /\ \A i \in 1 .. 8 : c[i].index = 2147483647
                    /\ c[9].index = 255)

\* C8 witness: the all-0xFF hash and a hash holding the word 01 02 03 04 have
\* both been encoded
C8_Witness ==
    /\ \E t \in Txs : derived[t].h = OnesHash /\ derived[t].path[9].index = 255
    /\ \E t \in Txs : \E i \in WordIdx :
        /\ WordLow(derived[t].h, i) = 16909060
        /\ derived[t].path[i + 1].index = 16909060

----------------------------------------------------------------------------
(* Claims about the oracle and the client, under Spec *)

\* b carries what the oracle needs to sign input 0
Signable(b) == b.inputs[1].witness_script # None /\ b.inputs[1].witness_utxo # None

\* C1: a sign call that began with the slot holding a forcibly closed
\* connection, for a signable request, with the oracle able to accept another
\* connection and no connect refused, returns Ok.
C1_Reconnect ==
    \A k \in Callers :
        ( /\ callers[k].pc = "done"
          /\ callers[k].stale
          /\ Signable(callers[k].b[1])
          /\ Len(conns) < MaxConns
          /\ callers[k].result[1] # Err("connect") )
        => callers[k].result[1].ok

\* C2: when a sign call returns a transport error (write, read) or a protocol
\* error (json), the connection slot is empty.
C2_SlotEmptyAfterError ==
    \A k \in Callers :
        ( /\ callers[k].pc = "done"
          /\ ~callers[k].result[1].ok
          /\ callers[k].result[1].val \in {"write", "read", "json"} )
        => callers[k].slotAfter = None

\* C3: a frame whose length prefix is above MAX_MSG never reaches the JSON
\* parser ("parsed" and "parse_err" are both outcomes of a parse), on the oracle
\* or on the client, and the oracle's connection fails.
C3_FramingBoundary ==
    /\ (srvLog # None /\ srvLog[1].len > MAX_MSG) =>
            /\ srvLog[1].outcome \notin {"parsed", "parse_err", "ok", "sign_err", "write_err"}
            /\ conns[srvLog[1].conn].srv = "closed"
    /\ (cliLog # None /\ cliLog[1].len > MAX_MSG) =>
            cliLog[1].outcome \notin {"parsed", "parse_err"}

\* C4: after the oracle failed a well-framed Sign request with a signing error,
\* the task of that connection is still running.
C4_ConnStaysOpen ==
    (srvLog # None /\ srvLog[1].phase = "handle" /\ srvLog[1].outcome = "sign_err") =>
        conns[srvLog[1].conn].srv # "closed"

\* the signatures a handled Sign request gained on its input i
Added(e, i) ==
    e.resp[1].body.psbt.inputs[i].partial_sigs \ e.msg.psbt.inputs[i].partial_sigs

\* C5: every signature the oracle adds to a request is made with the private key
\* derived from the master key along encode(commitment hash of the request's own
\* transaction), over the sighash of input 0 of that transaction, and is filed
\* under that key's public key; it is the key used for any other request for the
\* same transaction, whatever the other fields; no other input gains a signature.
C5_SignsDerivedKey ==
    (srvLog # None /\ srvLog[1].phase = "handle" /\ srvLog[1].outcome = "ok"
        /\ srvLog[1].msg.type = "SignPSBT") =>
        LET e == srvLog[1]
            b == e.msg.psbt
            key == derive_priv(root, hash_to_child_vec(ctvOf[b.tx]), 1)
        IN  /\ key.ok
            /\ Added(e, 1) =
                {[pk |-> PublicKey(key.val.key),
                  sig |-> Signature(key.val.key,
                                    SigHash(b.tx, b.inputs[1].witness_script[1],
                                            b.inputs[1].witness_utxo[1]))]}
            /\ \A a \in Added(e, 1) :
                    a.pk = OnlySig(derived[b.tx].signed.val.inputs[1].partial_sigs).pk
            /\ \A i \in 2 .. Len(b.inputs) : Added(e, i) = {}

\* C5 witness: the oracle signed a request that carried another party's
\* signature and extra fields, with a proper child key
C5_Witness ==
    /\ srvLog # None
    /\ srvLog[1].phase = "handle"
    /\ srvLog[1].outcome = "ok"
    /\ srvLog[1].msg.type = "SignPSBT"
    /\ srvLog[1].msg.psbt.extra > 0
    /\ srvLog[1].msg.psbt.inputs[1].partial_sigs # {}
    /\ Cardinality(Added(srvLog[1], 1)) = 1
    /\ \A a \in Added(srvLog[1], 1) : a.sig.key # root.key

\* C9: a Sign request whose input 0 lacks the witness script or the funding
\* amount ends in an error, and no response is written for it.
C9_MissingWitnessFails ==
    (srvLog # None /\ srvLog[1].phase = "handle" /\ srvLog[1].msg.type = "SignPSBT"
        /\ ~Signable(srvLog[1].msg.psbt)) =>
        /\ srvLog[1].outcome = "sign_err"
        /\ srvLog[1].resp = None
        /\ conns[srvLog[1].conn].s2c = <<>>

\* C9 witness: a request with no funding amount on input 0, but one on its
\* other input, was refused
C9_Witness ==
    /\ srvLog # None
    /\ srvLog[1].phase = "handle"
    /\ srvLog[1].msg.type = "SignPSBT"
    /\ srvLog[1].msg.psbt.inputs[1].witness_utxo = None
    /\ Len(srvLog[1].msg.psbt.inputs) = 2
    /\ srvLog[1].msg.psbt.inputs[2].witness_utxo # None
    /\ srvLog[1].outcome = "sign_err"

\* C10: a signing error on a well-framed request still has a response frame
\* written for it; a frame that does not parse ends the connection with none.
C10_ErrorResponse ==
    /\ (srvLog # None /\ srvLog[1].outcome = "sign_err") => srvLog[1].resp # None
    /\ (srvLog # None /\ srvLog[1].outcome = "parse_err") =>
            (srvLog[1].resp = None /\ conns[srvLog[1].conn].srv = "closed")

\* C11: a sign call makes at most one connect and sends at most one request; a
\* refused connect is returned before anything is sent, and a call waiting for
\* its response has sent exactly one request.
C11_SingleAttempt ==
    \A k \in Callers :
        /\ callers[k].connects <= 1
        /\ callers[k].sent <= 1
        /\ (callers[k].pc = "recv" => callers[k].sent = 1)
        /\ (callers[k].pc = "done" /\ callers[k].result[1] = Err("connect")) =>
                (callers[k].connects = 0 /\ callers[k].sent = 0)

\* C11 witness: a call connected, sent its request, and returned the error of
\* the failed exchange
C11_Witness ==
    \E k \in Callers :
        /\ callers[k].pc = "done"
        /\ ~callers[k].result[1].ok
        /\ callers[k].connects = 1
        /\ callers[k].sent = 1

\* the callers between acquiring the lock and the end of their exchange
InExchange == {k \in Callers : callers[k].pc \in {"loop", "recv"}}

\* C12: at most one caller at a time is between acquiring the lock and the end
\* of its connect / request / response, and it is the holder of the lock; the
\* client never has a second socket: every connection it opened is the one in
\* its slot, so racing callers that found the slot empty opened one between them.
C12_MutualExclusion ==
    /\ Cardinality(InExchange) <= 1
    /\ \A k \in InExchange : lock = Some(k)
    /\ \A c \in ConnIds : conns[c].owner = "client" => slot = Some(c)
    /\ \A k1, k2 \in Callers :
            (k1 # k2 /\ callers[k1].pc # "idle" /\ callers[k2].pc # "idle") =>
                callers[k1].connects + callers[k2].connects <= 1

\* C12 witness: two callers are in sign at once with no connection yet; one
\* holds the lock and is about to connect, the other waits for the lock
C12_Witness ==
    /\ slot = None
    /\ callers["c1"].pc = "loop"
    /\ callers["c2"].pc = "lock"
    /\ lock = Some("c1")

----------------------------------------------------------------------------
(* Claims about the federation, under SpecFed *)

\* C13: when every member's get_signer_for(h) succeeds, the federation's
\* get_signer_for(h) is a threshold clause with the federation's threshold and
\* one sub-clause per member, the i-th being member i's clause for h; when some
\* member fails, the call fails with the first failing member's error and
\* returns no clause.
C13_SignerShape ==
    fed.signer # None =>
        LET h == fed.signer[1].h
            r == fed.signer[1].result
            N == Len(fed.emulators)
            bad == {i \in 1 .. N : ~MemberGetSignerFor(fed.emulators[i], h).ok}
        IN  IF bad = {}
            THEN /\ r.ok
                 /\ r.val.clause = "Threshold"
                 /\ r.val.k = fed.threshold
                 /\ Len(r.val.subs) = N
                 /\ \A i \in 1 .. N :
                        r.val.subs[i] = MemberGetSignerFor(fed.emulators[i], h).val
            ELSE /\ ~r.ok
                 /\ \E i \in bad :
                        /\ \A j \in bad : i <= j
                        /\ r = MemberGetSignerFor(fed.emulators[i], h)

\* C13 witness: a federation of 3 members with threshold 2 gave a clause with 3
\* sub-clauses for three different keys
C13_Witness ==
    /\ fed.signer # None
    /\ Len(fed.emulators) = 3
    /\ fed.threshold = 2
    /\ fed.signer[1].result.ok
    /\ Len(fed.signer[1].result.val.subs) = 3
    /\ Cardinality({fed.signer[1].result.val.subs[i].key : i \in 1 .. 3}) = 3

\* the public key member i of the federation signs with for transaction tx
MemberKey(i, tx) == MemberGetSignerFor(fed.emulators[i], get_ctv_hash(tx)).val.key

\* the partial signatures on input 0 that the federation's sign added to b
FedAdded == fed.signed[1].run.result.val.inputs[1].partial_sigs
                \ fed.signed[1].b.inputs[1].partial_sigs

\* C14: when every member can sign the request, the federation's sign called
\* every member exactly once, in member order, each with the request the
\* previous member returned, and returns the last member's request; it carries a
\* valid partial signature under every member's key, N new ones when the
\* members' keys differ, whatever the threshold.
C14_OverCollects ==
    (fed.signed # None
        /\ \A i \in 1 .. Len(fed.emulators) : MemberSign(fed.emulators[i], fed.signed[1].b).ok) =>
        LET b == fed.signed[1].b
            run == fed.signed[1].run
            N == Len(fed.emulators)
        IN  /\ run.result.ok
            /\ Len(run.calls) = N
            /\ \A i \in 1 .. N :
                    /\ run.calls[i].member = i
                    /\ run.calls[i].arg = IF i = 1 THEN b ELSE run.calls[i - 1].result.val
                    /\ run.calls[i].result = MemberSign(fed.emulators[i], run.calls[i].arg)
            /\ run.result = IF N = 0 THEN Ok(b) ELSE run.calls[N].result
            /\ run.result.val.tx = b.tx
            /\ \A i \in 1 .. N :
                    \E e \in run.result.val.inputs[1].partial_sigs :
                        /\ e.pk = MemberKey(i, b.tx)
                        /\ PublicKey(e.sig.key) = e.pk
                        /\ e.sig.msg = SigHash(b.tx, b.inputs[1].witness_script[1],
                                               b.inputs[1].witness_utxo[1])
            /\ Cardinality(FedAdded) = Cardinality({MemberKey(i, b.tx) : i \in 1 .. N})
            /\ \A e \in b.inputs[1].partial_sigs :
                    (\A i \in 1 .. N : e.pk # MemberKey(i, b.tx)) =>
                        e \in run.result.val.inputs[1].partial_sigs

\* C14 witness: a federation of 3 members with different keys and threshold 2
\* returned a request with 3 new partial signatures
C14_Witness ==
    /\ fed.signed # None
    /\ Len(fed.emulators) = 3
    /\ fed.threshold = 2
    /\ fed.signed[1].run.result.ok
    /\ Len(fed.signed[1].run.calls) = 3
    /\ Cardinality(FedAdded) = 3

\* the members that cannot sign the request the federation was given
FailingMembers ==
    {i \in 1 .. Len(fed.emulators) : ~MemberSign(fed.emulators[i], fed.signed[1].b).ok}

\* C15: when member i is the first member whose sign fails, the federation's
\* sign fails with member i's error, members 1 .. i were called and no member
\* after i, and what is returned is the error alone, not a request.
C15_ShortCircuit ==
    (fed.signed # None /\ FailingMembers # {}) =>
        LET run == fed.signed[1].run
            i == CHOOSE j \in FailingMembers : \A l \in FailingMembers : j <= l
        IN  /\ ~run.result.ok
            /\ run.result = run.calls[i].result
            /\ run.result.val \in {"connect", "read"}
            /\ Len(run.calls) = i
            /\ \A j \in 1 .. i : run.calls[j].member = j
            /\ \A j \in 1 .. i - 1 : run.calls[j].result.ok
            /\ ~\E j \in 1 .. Len(run.calls) : run.calls[j].member > i

\* C15 witness: in a federation of 3 the second member failed after the first
\* had signed, and the third was not called
C15_Witness ==
    /\ fed.signed # None
    /\ Len(fed.emulators) = 3
    /\ Len(fed.signed[1].run.calls) = 2
    /\ fed.signed[1].run.calls[1].result.ok
    /\ ~fed.signed[1].run.calls[2].result.ok
    /\ ~fed.signed[1].run.result.ok
    /\ MemberSign(fed.emulators[3], fed.signed[1].b).ok

----------------------------------------------------------------------------
(* Further claims about the oracle and the client, under Spec *)

\* C16: the response to ConfirmKey(nonce) is KeyConfirmed(signature, h) where
\* the signature verifies under the oracle's master public key over the hash of
\* (h, nonce), h being the challenge hash of that same response.
C16_ConfirmKey ==
    (srvLog # None /\ srvLog[1].phase = "handle" /\ srvLog[1].msg.type = "ConfirmKey") =>
        /\ srvLog[1].outcome \in {"ok", "write_err"}
        /\ srvLog[1].outcome = "ok" =>
            LET m == srvLog[1].resp[1].body
            IN  /\ m.type = "KeyConfirmed"
                /\ PublicKey(m.signature.key) = PublicKey(MasterKey.key)
                /\ m.signature.msg = <<m.h, srvLog[1].msg.nonce>>
                /\ m.h \in Entropy

\* C16 witness: the second nonce was confirmed with the second challenge hash
C16_Witness ==
    /\ srvLog # None
    /\ srvLog[1].phase = "handle"
    /\ srvLog[1].msg.type = "ConfirmKey"
    /\ srvLog[1].msg.nonce = "n2"
    /\ srvLog[1].outcome = "ok"
    /\ srvLog[1].resp[1].body.h = "e2"

\* C17: a step that is a get_signer_for(h) call on the client leaves the
\* connections, the connection slot and the lock as they were, and returns the
\* clause for the child public key of h, whatever the slot holds.
C17_SignerIsLocal ==
    [][signerLog' # None =>
            /\ UNCHANGED <<conns, slot, lock, callers>>
            /\ signerLog'[1].result =
                    Ok([clause |-> "Key",
                        key |-> ClientDerive(signerLog'[1].h).val.public_key])
            /\ ClientDerive(signerLog'[1].h).ok]_vars

\* C17 witness: get_signer_for returned a clause while the slot held a forcibly
\* closed connection and another caller held the lock
C17_Witness ==
    /\ signerLog # None
    /\ signerLog[1].result.ok
    /\ slot # None
    /\ conns[slot[1]].link = "down"
    /\ lock # None

\* C18: on every connection, a step in which the oracle reads a request starts
\* with no request in hand (the response to the one before is written) and takes
\* the oldest unread frame; a step in which it writes a response writes one
\* frame, for the one request in hand, and leaves none in hand; responses
\* appear in no other step.
C18_Serialized ==
    [][\A c \in ConnIds :
        /\ (srvLog' # None /\ srvLog'[1].conn = c /\ srvLog'[1].phase = "read") =>
                /\ conns[c].srv = "idle"
                /\ conns[c].req = None
                /\ srvLog'[1].len = Head(conns[c].c2s).len
                /\ srvLog'[1].msg = Head(conns[c].c2s).body
                /\ conns'[c].c2s = Tail(conns[c].c2s) \/ conns'[c].srv = "closed"
        /\ (srvLog' # None /\ srvLog'[1].conn = c /\ srvLog'[1].phase = "handle"
                /\ srvLog'[1].outcome = "ok") =>
                /\ conns[c].srv = "handling"
                /\ srvLog'[1].msg = conns[c].req[1].body
                /\ conns'[c].req = None
                /\ conns'[c].srv = "idle"
                /\ conns[c].owner = "client" =>
                        conns'[c].s2c = Append(conns[c].s2c, srvLog'[1].resp[1])
        /\ Len(conns'[c].s2c) > Len(conns[c].s2c) =>
                (srvLog' # None /\ srvLog'[1].conn = c /\ srvLog'[1].phase = "handle"
                    /\ srvLog'[1].outcome = "ok")]_vars

\* C18 witness: a second request waits unread on a connection while the oracle
\* is handling the first
C18_Witness ==
    \E c \in ConnIds :
        /\ conns[c].srv = "handling"
        /\ conns[c].c2s # <<>>
        /\ ParseRequest(Head(conns[c].c2s)).ok

C20_ResponseMatches ==
    (cliLog # None /\ cliLog[1].outcome = "parsed") =>
        LET k == cliLog[1].caller
            b == callers[k].b[1]
        IN  /\ callers[k].pc = "done"
            /\ Signable(b)
            /\ cliLog[1].msg = PSBTMsg(OracleSign(b).val)
            /\ callers[k].result[1] = PsbtMerge(b, OracleSign(b).val)
            /\ callers[k].result[1].ok
            /\ conns[cliLog[1].conn].s2c = <<>>

\* C20 witness: the second caller got the answer to its own request, the one
\* with extra fields, on the connection the first caller had made
C20_Witness ==
    /\ cliLog # None
    /\ cliLog[1].outcome = "parsed"
    /\ cliLog[1].caller = "c2"
    /\ callers["c2"].connects = 0
    /\ callers["c2"].b[1].extra > 0
    /\ callers["c2"].result[1].ok

====
